---- MODULE Spec2Model ----
(***************************************************************************)
(* State-machine model of the RAG chatbot backend: the RAGEngine document  *)
(* store and vector indexes (backend/app/rag_engine.py), the conversation  *)
(* memory manager (backend/app/memory_manager.py), the provider gateway    *)
(* (backend/app/services/model_service.py) and the /api/chat endpoint      *)
(* (backend/app/main.py).                                                  *)
(***************************************************************************)
EXTENDS Integers, Sequences, FiniteSets, TLC

VARIABLES document_store, vectorstores, sessions, ret, tasks, meetings

vars == <<document_store, vectorstores, sessions, ret, tasks, meetings>>

(***************************************************************************)
(* Bounds of the model.                                                    *)
(***************************************************************************)
MaxChunks == 2
MaxTurns == 1
MaxRetrieved == 4
MaxPieces == 4

\* Largest number of chunks of the document whose retrieval is examined.
MaxIndexed == 4

\* Largest number of meetings ever inserted into the calendar table.
MaxMeetings == 2

(***************************************************************************)
(* Program constants.                                                      *)
(***************************************************************************)
RETRIEVER_K == 5
FETCH_K == 20
LAMBDA_MULT == 7
PROVIDER_NAMES == {"gemini", "openrouter", "groq"}

None == "None"

(***************************************************************************)
(* Input universes.                                                        *)
(***************************************************************************)
DocIds == {"doc_0", "doc_1"}
UnknownId == "doc_unknown"

Texts == {"alpha", "beta", "gamma"}

\* A Document: page_content plus the metadata keys that the engine reads.
\* A metadata key that is missing is None (NoPage for the page number).
NoPage == 0 - 1

Chunk(filename, page, content) ==
    [filename |-> filename, page |-> page, section |-> None,
     content |-> content, source_type |-> None, source_url |-> None]

ChunkPool == {Chunk("contract.pdf", 3, "alpha"), Chunk("notes.txt", NoPage, "beta")}

RECURSIVE SeqsUpTo(_, _)
SeqsUpTo(S, n) ==
    IF n = 0 THEN {<<>>}
    ELSE LET shorter == SeqsUpTo(S, n - 1)
         IN  shorter \cup {Append(s, e) : s \in shorter, e \in S}

ChunkLists == SeqsUpTo(ChunkPool, MaxChunks)

(***************************************************************************)
(* Python dict helpers: item assignment and del.                           *)
(***************************************************************************)
Put(d, k, v) == [x \in (DOMAIN d) \cup {k} |-> IF x = k THEN v ELSE d[x]]
Del(d, k) == [x \in (DOMAIN d) \ {k} |-> d[x]]
EmptyDict == [x \in {} |-> None]

(***************************************************************************)
(* LocalEmbeddings: every text is embedded as a unit vector in the plane,  *)
(* given by its angle in steps of 30 degrees; cosine similarity scaled by  *)
(* 100.                                                                    *)
(***************************************************************************)
Angle(text) ==
    CASE text = "alpha" -> 0
      [] text = "beta"  -> 1
      [] text = "gamma" -> 3
      [] OTHER          -> 2

Abs(n) == IF n < 0 THEN -n ELSE n

Cos100(steps) ==
    CASE steps = 0 -> 100
      [] steps = 1 -> 87
      [] steps = 2 -> 50
      [] OTHER     -> 0

embed_query(text) == Angle(text)

embed_documents(texts) == [i \in 1..Len(texts) |-> Angle(texts[i])]

cosine_similarity(a, b) == Cos100(Abs(a - b))

(***************************************************************************)
(* FAISS.from_documents: the index keeps the documents it was built from   *)
(* and one vector per document.  Building over an empty list fails         *)
(* (embeddings[0] of an empty list), as does a failure of the embedding    *)
(* model.                                                                  *)
(***************************************************************************)
from_documents(chunks) ==
    [docs |-> chunks,
     vectors |-> embed_documents([i \in 1..Len(chunks) |-> chunks[i].content])]

BuildFails(chunks, embedOk) == chunks = <<>> \/ ~embedOk

(***************************************************************************)
(* Retriever built by as_retriever(search_type="mmr", k, fetch_k,          *)
(* lambda_mult): the fetch_k nearest vectors of the index, nearest first,  *)
(* then greedy maximal-marginal-relevance selection of k of them.          *)
(***************************************************************************)
Min(a, b) == IF a < b THEN a ELSE b

RECURSIVE NearestFirst(_, _, _)
NearestFirst(index, q, left) ==
    IF left = {} THEN <<>>
    ELSE LET best == CHOOSE i \in left :
                        \A j \in left :
                            \/ cosine_similarity(q, index.vectors[i]) > cosine_similarity(q, index.vectors[j])
                            \/ /\ cosine_similarity(q, index.vectors[i]) = cosine_similarity(q, index.vectors[j])
                               /\ i <= j
         IN  <<best>> \o NearestFirst(index, q, left \ {best})

index_search(index, q, fetch_k) ==
    SubSeq(NearestFirst(index, q, 1..Len(index.docs)), 1, Min(fetch_k, Len(index.docs)))

RECURSIVE MaxOver(_, _)
MaxOver(f, S) ==
    LET x == CHOOSE y \in S : TRUE
    IN  IF S = {x} THEN f[x] ELSE LET m == MaxOver(f, S \ {x}) IN IF f[x] > m THEN f[x] ELSE m

Range(s) == {s[i] : i \in 1..Len(s)}

\* Variant that ranks by similarity to the question alone.
equation_score_by_relevance(index, q, cand, selected) ==
    LAMBDA_MULT * cosine_similarity(q, index.vectors[cand])

equation_score(index, q, cand, selected) ==
    LET redundant == MaxOver([j \in Range(selected) |->
                                 cosine_similarity(index.vectors[cand], index.vectors[j])],
                             Range(selected))
    IN  LAMBDA_MULT * cosine_similarity(q, index.vectors[cand]) - (10 - LAMBDA_MULT) * redundant

RECURSIVE mmr_loop(_, _, _, _, _)
mmr_loop(index, q, cands, k, selected) ==
    IF Len(selected) >= Min(k, Len(cands)) THEN selected
    ELSE LET open == {p \in 1..Len(cands) : cands[p] \notin Range(selected)}
             pick == CHOOSE p \in open :
                        \A r \in open :
                            \/ equation_score(index, q, cands[p], selected) > equation_score(index, q, cands[r], selected)
                            \/ /\ equation_score(index, q, cands[p], selected) = equation_score(index, q, cands[r], selected)
                               /\ p <= r
         IN  mmr_loop(index, q, cands, k, Append(selected, cands[pick]))

maximal_marginal_relevance(index, q, cands, k) ==
    IF Min(k, Len(cands)) <= 0 THEN <<>>
    ELSE mmr_loop(index, q, cands, k, <<cands[1]>>)

retriever_invoke(index, question, k) ==
    LET q == embed_query(question)
        picked == maximal_marginal_relevance(index, q, index_search(index, q, FETCH_K), k)
    IN  [i \in 1..Len(picked) |-> index.docs[picked[i]]]

(***************************************************************************)
(* Variant of add_documents that keeps the index of an id that already has *)
(* one instead of building a fresh index.                                  *)
(***************************************************************************)
add_documents_keeps_index(document_id, chunks, embedOk) ==
    /\ document_store' = Put(document_store, document_id, chunks)
    /\ IF BuildFails(chunks, embedOk)
       THEN /\ vectorstores' = vectorstores
            /\ ret' = [op |-> "add_documents", id |-> document_id,
                       existed |-> document_id \in DOMAIN vectorstores, raised |-> TRUE]
       ELSE /\ vectorstores' = IF document_id \in DOMAIN vectorstores
                               THEN vectorstores
                               ELSE Put(vectorstores, document_id, from_documents(chunks))
            /\ ret' = [op |-> "add_documents", id |-> document_id,
                       existed |-> document_id \in DOMAIN vectorstores, raised |-> FALSE]
    /\ UNCHANGED <<sessions, tasks, meetings>>

(***************************************************************************)
(* RAGEngine.add_documents                                                 *)
(***************************************************************************)
add_documents(document_id, chunks, embedOk) ==
    /\ document_store' = Put(document_store, document_id, chunks)
    /\ IF BuildFails(chunks, embedOk)
       THEN /\ vectorstores' = vectorstores
            /\ ret' = [op |-> "add_documents", id |-> document_id,
                       existed |-> document_id \in DOMAIN vectorstores, raised |-> TRUE]
       ELSE /\ vectorstores' = Put(vectorstores, document_id, from_documents(chunks))
            /\ ret' = [op |-> "add_documents", id |-> document_id,
                       existed |-> document_id \in DOMAIN vectorstores, raised |-> FALSE]
    /\ UNCHANGED <<sessions, tasks, meetings>>

(***************************************************************************)
(* RAGEngine.remove_document                                               *)
(***************************************************************************)
remove_document(document_id) ==
    /\ IF document_id \in DOMAIN vectorstores
       THEN /\ vectorstores' = Del(vectorstores, document_id)
            /\ IF document_id \in DOMAIN document_store
               THEN /\ document_store' = Del(document_store, document_id)
                    /\ ret' = [op |-> "remove_document", id |-> document_id,
                               raised |-> FALSE, value |-> TRUE]
               ELSE /\ document_store' = document_store
                    /\ ret' = [op |-> "remove_document", id |-> document_id,
                               raised |-> TRUE, value |-> FALSE]
       ELSE /\ UNCHANGED <<vectorstores, document_store>>
            /\ ret' = [op |-> "remove_document", id |-> document_id,
                       raised |-> FALSE, value |-> FALSE]
    /\ UNCHANGED <<sessions, tasks, meetings>>

(***************************************************************************)
(* RAGEngine.list_documents and RAGEngine.get_stats                        *)
(***************************************************************************)
RECURSIVE SumLen(_, _)
SumLen(d, keys) ==
    IF keys = {} THEN 0
    ELSE LET k == CHOOSE x \in keys : TRUE
         IN  Len(d[k]) + SumLen(d, keys \ {k})

ListDocumentsValue == DOMAIN vectorstores

GetStatsValue ==
    [documents_loaded |-> Cardinality(DOMAIN vectorstores),
     chunks_created |-> SumLen(document_store, DOMAIN document_store)]

list_documents ==
    /\ ret' = [op |-> "list_documents", value |-> ListDocumentsValue]
    /\ UNCHANGED <<document_store, vectorstores, sessions, tasks, meetings>>

get_stats ==
    /\ ret' = [op |-> "get_stats", value |-> GetStatsValue]
    /\ UNCHANGED <<document_store, vectorstores, sessions, tasks, meetings>>

(***************************************************************************)
(* GET /api/documents: lists the chunk store, not the index map.           *)
(***************************************************************************)
list_documents_endpoint ==
    /\ ret' = [op |-> "GET /api/documents",
               value |-> {[id |-> d, chunks_created |-> Len(document_store[d])] :
                             d \in DOMAIN document_store}]
    /\ UNCHANGED <<document_store, vectorstores, sessions, tasks, meetings>>

(***************************************************************************)
(* ConversationMemoryManager: sessions maps a session id to the messages   *)
(* of its ChatMessageHistory.                                              *)
(***************************************************************************)
HumanMessage(content) == [type |-> "human", content |-> content]
AIMessage(content) == [type |-> "ai", content |-> content]

get_or_create_session(mem, session_id) ==
    IF session_id \in DOMAIN mem THEN mem ELSE Put(mem, session_id, <<>>)

\* Variant with one history shared by the sessions: the pair is appended to
\* every session record.
add_message_to_shared(mem, session_id, user_message, ai_response) ==
    LET created == get_or_create_session(mem, session_id)
    IN  [sid \in DOMAIN created |->
            created[sid] \o <<HumanMessage(user_message), AIMessage(ai_response)>>]

add_message_to(mem, session_id, user_message, ai_response) ==
    LET created == get_or_create_session(mem, session_id)
    IN  Put(created, session_id,
            created[session_id] \o <<HumanMessage(user_message), AIMessage(ai_response)>>)

\* The formatted history: one line "User: ..." or "Assistant: ..." per message.
get_chat_history(mem, session_id) ==
    LET messages == get_or_create_session(mem, session_id)[session_id]
    IN  [i \in 1..Len(messages) |->
            [label |-> IF messages[i].type = "human" THEN "User" ELSE "Assistant",
             content |-> messages[i].content]]

add_message(session_id, user_message, ai_response) ==
    /\ sessions' = add_message_to(sessions, session_id, user_message, ai_response)
    /\ ret' = [op |-> "add_message", id |-> session_id]
    /\ UNCHANGED <<document_store, vectorstores, tasks, meetings>>

clear_session(session_id) ==
    /\ sessions' = IF session_id \in DOMAIN sessions THEN Del(sessions, session_id) ELSE sessions
    /\ ret' = [op |-> "clear_session", id |-> session_id]
    /\ UNCHANGED <<document_store, vectorstores, tasks, meetings>>

clear_all_sessions ==
    /\ sessions' = EmptyDict
    /\ ret' = [op |-> "clear_all_sessions"]
    /\ UNCHANGED <<document_store, vectorstores, tasks, meetings>>

(***************************************************************************)
(* ModelService.get_provider: the provider must be one of PROVIDER_NAMES   *)
(* and the key must not be blank.                                          *)
(***************************************************************************)
Blank(text) == text \in {"", " "}

get_provider_raises(provider, api_key) ==
    provider \notin PROVIDER_NAMES \/ Blank(api_key)

(***************************************************************************)
(* RAGEngine._format_docs: one entry per chunk with its 1-based index.     *)
(***************************************************************************)
_format_docs(docs) ==
    [i \in 1..Len(docs) |->
        [index |-> i,
         source |-> IF docs[i].filename = None THEN "Unknown" ELSE docs[i].filename,
         page |-> IF docs[i].page = NoPage THEN "N/A" ELSE ToString(docs[i].page),
         content |-> docs[i].content]]

(***************************************************************************)
(* RAGEngine._get_prompt_template: the template is built and returned only *)
(* inside the branch for include_history; otherwise the function returns   *)
(* None, modelled as the empty sequence.                                   *)
(***************************************************************************)
_get_prompt_template(include_history) ==
    IF include_history
    THEN <<[input_variables |-> {"context", "document_content", "input"}]>>
    ELSE <<>>

\* PromptTemplate.format: the template's variables are filled from the chain
\* inputs; an input the template does not name is dropped.
format_prompt(template, inputs) ==
    [v \in template.input_variables \cap DOMAIN inputs |-> inputs[v]]

(***************************************************************************)
(* The output sanitizer of ask.  Text is a sequence of characters; the     *)
(* control characters and the backquote are written by name: LF (newline), *)
(* TAB, CR, BEL, BACKQUOTE.                                                *)
(***************************************************************************)
Lower(c) ==
    CASE c = "T" -> "t" [] c = "H" -> "h" [] c = "I" -> "i" [] c = "N" -> "n"
      [] c = "K" -> "k" [] c = "R" -> "r" [] c = "E" -> "e" [] c = "A" -> "a"
      [] c = "S" -> "s" [] c = "O" -> "o" [] c = "G" -> "g" [] c = "L" -> "l"
      [] c = "Y" -> "y" [] OTHER -> c

MatchAt(text, i, pat) ==
    /\ i + Len(pat) - 1 <= Len(text)
    /\ \A j \in 1..Len(pat) : Lower(text[i + j - 1]) = pat[j]

\* re.sub(open .*? close, "", text, DOTALL | IGNORECASE)
RECURSIVE SubSpans(_, _, _, _)
SubSpans(text, i, open, close) ==
    IF i > Len(text) THEN <<>>
    ELSE LET ends == {j \in (i + Len(open))..Len(text) : MatchAt(text, j, close)}
         IN  IF MatchAt(text, i, open) /\ ends # {}
             THEN LET j == CHOOSE e \in ends : \A f \in ends : e <= f
                  IN  SubSpans(text, j + Len(close), open, close)
             ELSE <<text[i]>> \o SubSpans(text, i + 1, open, close)

ThinkOpen == <<"<", "t", "h", "i", "n", "k", ">">>
ThinkClose == <<"<", "/", "t", "h", "i", "n", "k", ">">>
ReasoningOpen == <<"<", "r", "e", "a", "s", "o", "n", "i", "n", "g", ">">>
ReasoningClose == <<"<", "/", "r", "e", "a", "s", "o", "n", "i", "n", "g", ">">>
AnalysisOpen == <<"<", "a", "n", "a", "l", "y", "s", "i", "s", ">">>
AnalysisClose == <<"<", "/", "a", "n", "a", "l", "y", "s", "i", "s", ">">>

ControlChars == {"LF", "TAB", "CR", "BEL"}
isprintable(c) == c \notin ControlChars
\* str.strip() removes white space; BEL is a control character that is not
\* white space.
Whitespace == {" ", "LF", "TAB", "CR"}

RECURSIVE CollapseNewlines(_, _)
CollapseNewlines(text, i) ==
    IF i > Len(text) THEN <<>>
    ELSE IF text[i] # "LF" THEN <<text[i]>> \o CollapseNewlines(text, i + 1)
    ELSE LET stop == CHOOSE j \in i..(Len(text) + 1) :
                        /\ \A m \in i..(j - 1) : text[m] = "LF"
                        /\ j = Len(text) + 1 \/ text[j] # "LF"
         IN  (IF stop - i >= 3 THEN <<"LF", "LF">> ELSE SubSeq(text, i, stop - 1))
                \o CollapseNewlines(text, stop)

strip(text) ==
    LET keep == {i \in 1..Len(text) : text[i] \notin Whitespace}
    IN  IF keep = {} THEN <<>>
        ELSE SubSeq(text, CHOOSE i \in keep : \A j \in keep : i <= j,
                          CHOOSE i \in keep : \A j \in keep : i >= j)

\* Variant that removes the tagged spans and strips, and filters no character.
sanitize_spans_only(raw) ==
    LET t1 == SubSpans(raw, 1, ThinkOpen, ThinkClose)
        t2 == SubSpans(t1, 1, ReasoningOpen, ReasoningClose)
        t3 == SubSpans(t2, 1, AnalysisOpen, AnalysisClose)
    IN  strip(t3)

\* lines 341-351: the four steps in the order of the code
sanitize(raw) ==
    LET t1 == SubSpans(raw, 1, ThinkOpen, ThinkClose)
        t2 == SubSpans(t1, 1, ReasoningOpen, ReasoningClose)
        t3 == SubSpans(t2, 1, AnalysisOpen, AnalysisClose)
        t4 == SelectSeq(t3, LAMBDA c : c \notin {"BACKQUOTE", "*"})
        t5 == SelectSeq(t4, LAMBDA c : isprintable(c) \/ c \in {"LF", "TAB"})
    IN  strip(CollapseNewlines(t5, 1))

(***************************************************************************)
(* RAGEngine.ask.  A request carries the arguments of the call and the     *)
(* answers of the two collaborators the call reaches: crawl is what        *)
(* URLCrawler.process_url does (raises, or returns chunks) and llm is what *)
(* the provider's model does with the prompt (raises, or returns text).    *)
(* An argument that is None or empty is the empty string or the empty      *)
(* sequence; the code tests all of them by truth value only.               *)
(***************************************************************************)
Truthy(x) == x \notin {None, ""}

\* Variant that searches every requested id.
search_ids_unfiltered(document_ids) == document_ids

\* line 175: the requested ids that have a vector store
search_ids_of(document_ids) ==
    SelectSeq(document_ids, LAMBDA d : d \in DOMAIN vectorstores)

\* lines 186-196: self.vectorstores[doc_id] and self.document_store[doc_id]
\* raise KeyError for an id that is missing
search_raises(ids) ==
    \E i \in 1..Len(ids) : ids[i] \notin DOMAIN vectorstores \/ ids[i] \notin DOMAIN document_store

\* lines 186-196: the ids are searched in order.  For each id the retriever
\* is built from vectorstores[id] and len(document_store[id]) (KeyError when
\* one is missing), then invoked, which embeds the question: the first id
\* that fails ends the call.
RECURSIVE search_failure(_, _)
search_failure(ids, embed_raised) ==
    IF ids = <<>> THEN None
    ELSE IF search_raises(<<Head(ids)>>) THEN "KeyError"
    ELSE IF embed_raised THEN "EmbeddingError"
    ELSE search_failure(Tail(ids), embed_raised)

RECURSIVE retrieve_documents(_, _)
retrieve_documents(question, ids) ==
    IF ids = <<>> THEN <<>>
    ELSE retriever_invoke(vectorstores[Head(ids)], question,
                          Min(RETRIEVER_K, Len(document_store[Head(ids)])))
            \o retrieve_documents(question, Tail(ids))

\* lines 199-229: the crawled chunks get a temporary index that is searched
\* the same way; any failure is caught and logged
retrieve_url(question, url, crawl) ==
    IF Truthy(url) /\ ~crawl.raised /\ crawl.docs # <<>>
    THEN retriever_invoke(from_documents(crawl.docs), question,
                          Min(RETRIEVER_K, Len(crawl.docs)))
    ELSE <<>>

\* lines 168-171 and 231-240
source_type_of(has_documents, has_url, all_docs) ==
    IF all_docs = <<>> THEN "general"
    ELSE IF has_documents /\ has_url THEN "both"
    ELSE IF has_url THEN "url"
    ELSE "document"

\* lines 258-287: the lines of the history block
previous_context_lines(user_context) ==
    IF Truthy(user_context.previous_context)
    THEN <<[tag |-> "PREVIOUS CHATS CONTEXT",
            body |-> <<[label |-> "", content |-> user_context.previous_context]>>]>>
    ELSE <<>>

conversation_lines(conversation_history) ==
    [i \in 1..Len(conversation_history) |->
        [tag |-> IF conversation_history[i].role = "user" THEN "User" ELSE "Assistant",
         body |-> <<[label |-> "", content |-> conversation_history[i].content]>>]]

session_lines(mem, session_id) ==
    IF get_chat_history(mem, session_id) # <<>>
    THEN <<[tag |-> "CURRENT SESSION HISTORY", body |-> get_chat_history(mem, session_id)]>>
    ELSE <<>>

\* Variant that reads the session memory whenever a session id is given.
reads_memory_always(conversation_history, session_id) == Truthy(session_id)

\* lines 269 and 276: the memory manager is the fallback of the elif branch
reads_memory(conversation_history, session_id) ==
    conversation_history = <<>> /\ Truthy(session_id)

history_lines_of(mem, req) ==
    previous_context_lines(req.user_context)
       \o conversation_lines(req.conversation_history)
       \o (IF reads_memory(req.conversation_history, req.session_id)
           THEN session_lines(mem, req.session_id)
           ELSE <<>>)

\* lines 301-321: the inputs of the chain
chain_inputs(has_history, history_lines, all_docs, question) ==
    IF has_history
    THEN [chat_history |-> history_lines,
          context |-> _format_docs(all_docs),
          document_content |-> _format_docs(all_docs),
          input |-> question]
    ELSE [context |-> _format_docs(all_docs),
          document_content |-> _format_docs(all_docs),
          input |-> question]

\* Variant that lists every chunk with a filename or url, repeated or not.
RECURSIVE extract_sources_all(_, _)
extract_sources_all(docs, seen_files) ==
    IF docs = <<>> THEN <<>>
    ELSE LET doc == Head(docs)
         IN  IF doc.source_type = "url"
             THEN IF Truthy(doc.source_url)
                  THEN <<[filename |-> doc.source_url, page |-> NoPage, section |-> None]>>
                          \o extract_sources_all(Tail(docs), seen_files)
                  ELSE extract_sources_all(Tail(docs), seen_files)
             ELSE IF Truthy(doc.filename)
                  THEN <<[filename |-> doc.filename, page |-> doc.page, section |-> doc.section]>>
                          \o extract_sources_all(Tail(docs), seen_files)
                  ELSE extract_sources_all(Tail(docs), seen_files)

\* lines 360-385: the unique sources
RECURSIVE extract_sources(_, _)
extract_sources(docs, seen_files) ==
    IF docs = <<>> THEN <<>>
    ELSE LET doc == Head(docs)
         IN  IF doc.source_type = "url"
             THEN IF Truthy(doc.source_url) /\ doc.source_url \notin seen_files
                  THEN <<[filename |-> doc.source_url, page |-> NoPage, section |-> None]>>
                          \o extract_sources(Tail(docs), seen_files \cup {doc.source_url})
                  ELSE extract_sources(Tail(docs), seen_files)
             ELSE IF Truthy(doc.filename) /\ doc.filename \notin seen_files
                  THEN <<[filename |-> doc.filename, page |-> doc.page, section |-> doc.section]>>
                          \o extract_sources(Tail(docs), seen_files \cup {doc.filename})
                  ELSE extract_sources(Tail(docs), seen_files)

\* What one call of ask computes, up to the point where it raises or returns.
\* lines 276-285 run once the retrieval and the provider set-up have passed
memory_read_of(req, raised) ==
    /\ raised \in {"TypeError", "GenerationError", None}
    /\ reads_memory(req.conversation_history, req.session_id)

ask_record(req, ids, all_docs, history_lines, template, raised) ==
    [raised |-> raised,
     search_ids |-> ids,
     all_docs |-> all_docs,
     source_type |-> IF raised \in {"KeyError", "EmbeddingError"} THEN None
                     ELSE source_type_of(ids # <<>>, Truthy(req.url), all_docs),
     memory_read |-> memory_read_of(req, raised),
     history_lines |-> IF raised \in {"TypeError", "GenerationError", None}
                       THEN history_lines ELSE <<>>,
     prompt |-> IF raised \in {"GenerationError", None}
                THEN <<format_prompt(template[1],
                          chain_inputs(history_lines # <<>>, history_lines, all_docs,
                                       req.question))>>
                ELSE <<>>,
     sent |-> raised \in {"GenerationError", None},
     answer |-> IF raised = None THEN sanitize(req.llm.text) ELSE <<>>,
     sources |-> IF raised = None THEN extract_sources(all_docs, {}) ELSE <<>>,
     provider |-> req.provider,
     model |-> req.model]

\* The first failure of the call: a missing store entry during retrieval,
\* the provider set-up (lines 244-249), the chain built on a template that
\* is None (lines 299-321), the model call (lines 335, 356-358).
ask_raised(req, ids, template) ==
    IF search_failure(ids, req.embed_raised) # None
    THEN search_failure(ids, req.embed_raised)
    ELSE IF get_provider_raises(req.provider, req.api_key) THEN "ValueError"
    ELSE IF template = <<>> THEN "TypeError"
    ELSE IF req.llm.raised THEN "GenerationError"
    ELSE None

\* Variant that puts the chunks of the url before those of the documents.
ask_retrieved_url_first(req, ids) ==
    IF search_failure(ids, req.embed_raised) # None THEN <<>>
    ELSE (IF req.embed_raised THEN <<>>
          ELSE retrieve_url(req.question, req.url, req.crawl))
            \o retrieve_documents(req.question, ids)

\* lines 186-196 run outside any try block: retriever.invoke(question) embeds
\* the question, and a failure of the embedding model leaves ask.  Lines
\* 202-229 run inside try/except: the same failure there is logged and the
\* url contributes nothing.
ask_retrieved(req, ids) ==
    IF search_failure(ids, req.embed_raised) # None THEN <<>>
    ELSE retrieve_documents(req.question, ids)
            \o (IF req.embed_raised THEN <<>>
                ELSE retrieve_url(req.question, req.url, req.crawl))

ask_composed(req, ids, history_lines, template) ==
    ask_record(req, ids, ask_retrieved(req, ids), history_lines, template,
               ask_raised(req, ids, template))

ask_with_history(req, ids, history_lines) ==
    ask_composed(req, ids, history_lines, _get_prompt_template(history_lines # <<>>))

ask_outcome(mem, req) ==
    ask_with_history(req,
                     IF req.document_ids # <<>> THEN search_ids_of(req.document_ids) ELSE <<>>,
                     history_lines_of(mem, req))

\* memory_manager.get_chat_history creates the session it is asked for
ask_sessions(mem, req) ==
    IF memory_read_of(req,
          ask_raised(req,
                     IF req.document_ids # <<>> THEN search_ids_of(req.document_ids) ELSE <<>>,
                     _get_prompt_template(history_lines_of(mem, req) # <<>>)))
    THEN get_or_create_session(mem, req.session_id)
    ELSE mem

\* Variant that keeps the index built from the crawled chunks under the url.
ask_keeping_url_index(req) ==
    /\ ret' = [op |-> "ask", req |-> req, out |-> ask_outcome(sessions, req)]
    /\ sessions' = ask_sessions(sessions, req)
    /\ IF Truthy(req.url) /\ ~req.crawl.raised /\ req.crawl.docs # <<>>
       THEN /\ document_store' = Put(document_store, req.url, req.crawl.docs)
            /\ vectorstores' = Put(vectorstores, req.url, from_documents(req.crawl.docs))
       ELSE UNCHANGED <<document_store, vectorstores>>
    /\ UNCHANGED <<tasks, meetings>>

ask(req) ==
    /\ ret' = [op |-> "ask", req |-> req, out |-> ask_outcome(sessions, req)]
    /\ sessions' = ask_sessions(sessions, req)
    /\ UNCHANGED <<document_store, vectorstores, tasks, meetings>>

(***************************************************************************)
(* POST /api/chat (main.chat).  ChatRequest declares the fields below;     *)
(* reading any other attribute of the request raises AttributeError.  The  *)
(* request record also carries the verdict of the content moderator        *)
(* (toxic) and the answers of the crawler and of the model.                *)
(***************************************************************************)
ChatRequestFields ==
    {"question", "session_id", "provider", "model", "api_key", "document_ids", "url"}

CalendarQuestions == {"schedule a call"}

is_calendar_request(question) == question \in CalendarQuestions

\* lines 371-373: the requested ids that list_documents() does not return
invalid_docs(document_ids) ==
    SelectSeq(document_ids, LAMBDA d : d \notin ListDocumentsValue)

chat_ask_request(req) ==
    [question |-> req.question, provider |-> req.provider, model |-> req.model,
     api_key |-> req.api_key, document_ids |-> req.document_ids, url |-> req.url,
     crawl |-> req.crawl, session_id |-> req.session_id,
     conversation_history |-> <<>>, user_context |-> [previous_context |-> ""],
     llm |-> req.llm, embed_raised |-> req.embed_raised]

ChatReply(status, error, model_used, asked, out) ==
    [status |-> status, error |-> error, model_used |-> model_used,
     asked |-> asked, out |-> out]

\* The validators of ChatRequest (models.py:38-60): a body with a provider
\* outside the three names, a blank question or a blank api_key is no
\* ChatRequest; the endpoint answers 422 and the handler does not run.
validate_chat_request(req) ==
    /\ req.provider \in {"gemini", "openrouter", "groq"}
    /\ ~Blank(req.question)
    /\ ~Blank(req.api_key)

\* The reply of the endpoint and the stage that produced it.
chat_outcome(mem, req) ==
    IF ~validate_chat_request(req)
    THEN ChatReply(422, "ValidationError", None, FALSE, <<>>)                 \* models.py:38-60
    ELSE IF "conversation_history" \notin ChatRequestFields
    THEN ChatReply(500, "AttributeError", None, FALSE, <<>>)                  \* line 267
    ELSE IF Blank(req.api_key)
    THEN ChatReply(400, "API key is required", None, FALSE, <<>>)             \* lines 275-279
    ELSE IF get_provider_raises(req.provider, req.api_key)
    THEN ChatReply(400, "Invalid configuration", None, FALSE, <<>>)           \* lines 283-297
    ELSE IF req.toxic
    THEN ChatReply(200, None, "content-moderator", FALSE, <<>>)               \* lines 309-322
    ELSE IF is_calendar_request(req.question)
    THEN ChatReply(200, None, "calendar-mcp", FALSE, <<>>)                    \* lines 331-368
    ELSE IF invalid_docs(req.document_ids) # <<>>
    THEN ChatReply(400, "One or more document IDs are invalid", None, FALSE, <<>>) \* lines 371-384
    ELSE IF "user_id" \notin ChatRequestFields
    THEN ChatReply(500, "AttributeError", None, FALSE, <<>>)                  \* line 388
    ELSE LET out == ask_outcome(mem, chat_ask_request(req))                   \* lines 404-414
         IN  IF out.raised = None
             THEN ChatReply(200, None, req.model, TRUE, <<out>>)
             ELSE IF out.raised = "ValueError"
             THEN ChatReply(400, out.raised, None, TRUE, <<out>>)
             ELSE ChatReply(500, out.raised, None, TRUE, <<out>>)

\* Variant that saves the exchange of a request that ended in an error: the
\* question is appended with an empty answer.
chat_sessions_saving_failures(mem, req) ==
    LET reply == chat_outcome(mem, req)
        asked == ask_sessions(mem, chat_ask_request(req))
    IN  IF reply.asked /\ reply.status = 200
        THEN add_message_to(asked, req.session_id, req.question, reply.out[1].answer)
        ELSE IF reply.status = 422 \/ req.session_id = None THEN mem
        ELSE add_message_to(mem, req.session_id, req.question, <<>>)

\* lines 404-438: ask may create the session; a returned answer is appended
chat_sessions(mem, req) ==
    LET reply == chat_outcome(mem, req)
        asked == ask_sessions(mem, chat_ask_request(req))
    IN  IF ~reply.asked THEN mem
        ELSE IF reply.status # 200 THEN asked
        ELSE add_message_to(asked, req.session_id, req.question, reply.out[1].answer)

chat(req) ==
    /\ ret' = [op |-> "POST /api/chat", req |-> req, reply |-> chat_outcome(sessions, req)]
    /\ sessions' = chat_sessions(sessions, req)
    /\ UNCHANGED <<document_store, vectorstores, tasks, meetings>>

Init ==
    /\ document_store = EmptyDict
    /\ vectorstores = EmptyDict
    /\ sessions = EmptyDict
    /\ ret = [op |-> "init"]
    /\ tasks = EmptyDict
    /\ meetings = [rows |-> {}, seq |-> 0]

AddDocuments == \E id \in DocIds, chunks \in ChunkLists : add_documents(id, chunks, TRUE)

\* add_documents while the embedding model raises.
AddDocumentsEmbeddingError ==
    \E id \in DocIds, c \in ChunkPool : add_documents(id, <<c>>, FALSE)

RemoveDocument == \E id \in DocIds \cup {UnknownId} : remove_document(id)

NextStore ==
    \/ AddDocuments
    \/ AddDocumentsEmbeddingError
    \/ RemoveDocument
    \/ list_documents
    \/ get_stats
    \/ list_documents_endpoint

SpecStore == Init /\ [][NextStore]_vars

(***************************************************************************)
(* The engine called with requests: a sample document, a session with      *)
(* stored turns, and calls of ask.                                         *)
(***************************************************************************)
SampleDocument == <<Chunk("contract.pdf", 3, "alpha"), Chunk("contract.pdf", 4, "gamma")>>

UrlChunk == [filename |-> None, page |-> NoPage, section |-> None,
             content |-> "beta", source_type |-> None, source_url |-> None]

SessionIds == {"s1"}

Credentials == {<<"gemini", "key">>, <<"mistral", "key">>, <<"groq", " ">>}

AskCredentials == {<<"gemini", "key">>, <<"mistral", "key">>}

RequestedIds == {<<>>, <<UnknownId>>, <<"doc_0">>, <<"doc_0", UnknownId>>}

UrlInputs == {[url |-> "", crawl |-> [raised |-> FALSE, docs |-> <<>>]],
              [url |-> "http://site", crawl |-> [raised |-> FALSE, docs |-> <<UrlChunk>>]]}

Histories == {<<>>, <<[role |-> "user", content |-> "hi"],
                      [role |-> "assistant", content |-> "hello"]>>}

PreviousContexts == {"", "my name is Ann"}

LlmAnswers == {[raised |-> TRUE, text |-> <<>>],
               [raised |-> FALSE, text |-> <<"*", "O", "k", "*">>]}

AskRequests ==
    {[question |-> "alpha", provider |-> c[1], model |-> "m", api_key |-> c[2],
      document_ids |-> ids, url |-> u.url, crawl |-> u.crawl, session_id |-> sid,
      conversation_history |-> h, user_context |-> [previous_context |-> p],
      llm |-> l, embed_raised |-> FALSE] :
        c \in AskCredentials, ids \in RequestedIds, u \in UrlInputs,
        sid \in SessionIds \cup {None}, h \in Histories, p \in PreviousContexts,
        l \in LlmAnswers}

AddSampleDocument == \E chunks \in {<<>>, SampleDocument} : add_documents("doc_0", chunks, TRUE)

RemoveSampleDocument == remove_document("doc_0")

AddMessage ==
    \E sid \in SessionIds :
        /\ sid \in DOMAIN sessions => Len(sessions[sid]) < 2 * MaxTurns
        /\ add_message(sid, "hi", "hello")

ClearSession == \E sid \in SessionIds : clear_session(sid)

Ask == \E req \in AskRequests : ask(req)

NextAsk ==
    \/ AddSampleDocument
    \/ RemoveSampleDocument
    \/ AddMessage
    \/ ClearSession
    \/ clear_all_sessions
    \/ Ask

SpecAsk == Init /\ [][NextAsk]_vars

(***************************************************************************)
(* The chat endpoint over the same store.                                  *)
(***************************************************************************)
ChatRequests ==
    {[question |-> q, provider |-> c[1], model |-> "m", api_key |-> c[2],
      document_ids |-> ids, url |-> "", crawl |-> [raised |-> FALSE, docs |-> <<>>],
      session_id |-> sid, toxic |-> t, llm |-> l, embed_raised |-> FALSE] :
        q \in {"alpha"} \cup CalendarQuestions, c \in Credentials, ids \in RequestedIds,
        sid \in SessionIds \cup {None}, t \in BOOLEAN, l \in LlmAnswers}

Chat == \E req \in ChatRequests : chat(req)

NextChat ==
    \/ AddSampleDocument
    \/ RemoveSampleDocument
    \/ Chat

SpecChat == Init /\ [][NextChat]_vars

(***************************************************************************)
(* Properties of the Document Store.                                       *)
(***************************************************************************)
RecordConsistent(id) ==
    /\ (id \in DOMAIN document_store) <=> (id \in DOMAIN vectorstores)
    /\ id \in DOMAIN vectorstores => vectorstores[id] = from_documents(document_store[id])

\* C1: after any sequence of add_documents and remove_document calls the ids
\* holding a chunk list are the ids holding an index, and every index was
\* built from the chunk list stored under its id.
C1_StoreMatchesIndex == \A id \in DOMAIN document_store \cup DOMAIN vectorstores : RecordConsistent(id)

\* C2: an add_documents call whose index build fails leaves the chunk store
\* and the index map exactly as they were before the call.
C2_FailedAddCommitsNothing ==
    [][(ret'.op = "add_documents" /\ ret'.raised)
          => (document_store' = document_store /\ vectorstores' = vectorstores)]_vars

RetrievalOf(store, indexes, id, question) ==
    retriever_invoke(indexes[id], question, Min(RETRIEVER_K, Len(store[id])))

\* C3: an add_documents call that returns on an already indexed id leaves
\* exactly the given chunks and an index over them under that id, and a call
\* that repeats the id and the chunks of the record changes neither the
\* record, nor get_stats(), nor the retrieval result of any query.
C3_ReAddReplaces ==
    [][\A id \in DocIds, chunks \in ChunkLists :
          (/\ id \in DOMAIN vectorstores
           /\ ~BuildFails(chunks, TRUE)
           /\ add_documents(id, chunks, TRUE))
          => /\ document_store'[id] = chunks
             /\ vectorstores'[id].docs = chunks
             /\ Len(vectorstores'[id].vectors) = Len(chunks)
             /\ (document_store[id] = chunks /\ vectorstores[id].docs = chunks)
                   => /\ document_store' = document_store
                      /\ vectorstores' = vectorstores
                      /\ GetStatsValue' = GetStatsValue
                      /\ \A q \in Texts :
                            RetrievalOf(document_store', vectorstores', id, q)
                               = RetrievalOf(document_store, vectorstores, id, q)]_vars

C3_Witness ==
    /\ ret.op = "add_documents"
    /\ ret.existed
    /\ ~ret.raised
    /\ Len(document_store[ret.id]) = MaxChunks
    /\ vectorstores[ret.id].docs = document_store[ret.id]

\* C4: remove_document returns true exactly when the id existed, and after a
\* false return the store holds neither chunks nor an index under the id.
C4_FalseMeansAbsent ==
    (ret.op = "remove_document" /\ ~ret.raised /\ ~ret.value)
        => (ret.id \notin DOMAIN document_store /\ ret.id \notin DOMAIN vectorstores)

ReaderOps == {"list_documents", "get_stats", "GET /api/documents", "ask"}

\* C5: a reader (ask, list_documents, the statistics or the document
\* listing) never finds an id with a chunk list but no index, an index but
\* no chunk list, or an index that does not match the stored chunk list.
C5_ReaderSeesWholeRecords ==
    ret.op \in ReaderOps
        => \A id \in DOMAIN document_store \cup DOMAIN vectorstores : RecordConsistent(id)

(***************************************************************************)
(* Properties of ask and of the chat endpoint.                             *)
(***************************************************************************)
UnknownOnly(document_ids) ==
    /\ document_ids # <<>>
    /\ \A i \in 1..Len(document_ids) : document_ids[i] \notin DOMAIN vectorstores

WithoutIds(req) == [req EXCEPT !.document_ids = <<>>]

\* C6: ask with document_ids that name only ids without an index has the
\* outcome of the same call with document_ids empty: the same chunks (none),
\* source type, prompt, sources, answer or exception, and the same effect on
\* the stores.
C6_UnknownIdsAsNoIds ==
    [][(ret'.op = "ask" /\ UnknownOnly(ret'.req.document_ids))
          => /\ ret'.out = ask_outcome(sessions, WithoutIds(ret'.req))
             /\ ret'.out.all_docs = retrieve_url(ret'.req.question, ret'.req.url, ret'.req.crawl)
             /\ sessions' = ask_sessions(sessions, WithoutIds(ret'.req))
             /\ document_store' = document_store
             /\ vectorstores' = vectorstores]_vars

C6_Witness ==
    /\ ret.op = "ask"
    /\ ret.req.document_ids = <<UnknownId>>
    /\ DOMAIN vectorstores # {}
    /\ ret.out.raised = None
    /\ ret.out.source_type = "general"
    /\ ret.out.sources = <<>>

HasUnknownId(document_ids) ==
    \E i \in 1..Len(document_ids) : document_ids[i] \notin DOMAIN vectorstores

\* C7: a chat request that names a document id without an index is not
\* rejected: the request reaches ask, which searches the known ids.
C7_ChatAcceptsUnknownIds ==
    (/\ ret.op = "POST /api/chat"
     /\ HasUnknownId(ret.req.document_ids)
     /\ ~get_provider_raises(ret.req.provider, ret.req.api_key)
     /\ ~ret.req.toxic
     /\ ~is_calendar_request(ret.req.question))
        => /\ ret.reply.asked
           /\ ret.reply.error \notin {"AttributeError", "One or more document IDs are invalid"}

PlainRequest(req) ==
    /\ req.document_ids = <<>>
    /\ ~Truthy(req.url)
    /\ ~Truthy(req.session_id)
    /\ req.conversation_history = <<>>
    /\ ~Truthy(req.user_context.previous_context)
    /\ ~get_provider_raises(req.provider, req.api_key)
    /\ ~req.llm.raised

\* C8: ask with no documents, url, session, history or user context and a
\* valid provider and key returns: the prompt is sent with an empty context
\* section, the source type is general, the answer is not empty and the
\* sources are empty.
C8_PlainAskAnswers ==
    (ret.op = "ask" /\ PlainRequest(ret.req))
        => /\ ret.out.raised = None
           /\ ret.out.sent
           /\ ret.out.prompt[1].context = <<>>
           /\ ret.out.source_type = "general"
           /\ ret.out.answer # <<>>
           /\ ret.out.sources = <<>>

\* C9: with a cross-session context and a conversation history the prompt
\* sent to the provider holds the cross-session block, then the history
\* block, and nothing from the memory store.
C9_PromptCarriesBothBlocks ==
    (/\ ret.op = "ask"
     /\ ret.out.sent
     /\ Truthy(ret.req.user_context.previous_context)
     /\ ret.req.conversation_history # <<>>)
        => /\ "chat_history" \in DOMAIN ret.out.prompt[1]
           /\ ret.out.prompt[1].chat_history =
                 previous_context_lines(ret.req.user_context)
                    \o conversation_lines(ret.req.conversation_history)

HasSessionBlock(history_lines) ==
    \E i \in 1..Len(history_lines) : history_lines[i].tag = "CURRENT SESSION HISTORY"

\* C10 as stated: the memory store is read into the history block only when
\* the cross-session context and the conversation history are both empty.
C10_MemoryOnlyWithoutBoth ==
    (ret.op = "ask" /\ (ret.out.memory_read \/ HasSessionBlock(ret.out.history_lines)))
        => /\ ~Truthy(ret.req.user_context.previous_context)
           /\ ret.req.conversation_history = <<>>

\* C10 amended: the memory store is read, and its history added to the
\* block, only when the conversation history is empty and a session id is
\* given; a cross-session context does not prevent it, the session block
\* then follows the cross-session block.
C10_MemoryOnlyWithoutHistory ==
    ret.op = "ask"
        => /\ ret.out.memory_read
                 => (ret.req.conversation_history = <<>> /\ Truthy(ret.req.session_id))
           /\ HasSessionBlock(ret.out.history_lines) => ret.out.memory_read
           /\ (/\ ret.out.memory_read
               /\ Truthy(ret.req.user_context.previous_context)
               /\ sessions[ret.req.session_id] # <<>>)
                 => ret.out.history_lines =
                       previous_context_lines(ret.req.user_context)
                          \o session_lines(sessions, ret.req.session_id)

C10_Witness ==
    /\ ret.op = "ask"
    /\ Truthy(ret.req.user_context.previous_context)
    /\ ret.req.conversation_history = <<>>
    /\ Len(ret.out.history_lines) = 2
    /\ ret.out.history_lines[1].tag = "PREVIOUS CHATS CONTEXT"
    /\ ret.out.history_lines[2].tag = "CURRENT SESSION HISTORY"
    /\ Len(ret.out.history_lines[2].body) = 2 * MaxTurns

(***************************************************************************)
(* The source list of ask over lists of retrieved chunks: chunks of        *)
(* uploaded files, a chunk as URLCrawler builds it, and a chunk whose       *)
(* metadata marks it as a url source.                                      *)
(***************************************************************************)
UrlSourceChunk == [filename |-> None, page |-> NoPage, section |-> None,
                   content |-> "beta", source_type |-> "url",
                   source_url |-> "http://site"]

RetrievedPool ==
    {Chunk("contract.pdf", 3, "alpha"), Chunk("contract.pdf", 4, "gamma"),
     Chunk("notes.txt", NoPage, "beta"), UrlChunk, UrlSourceChunk}

\* One more retrieved chunk joins all_docs and the source list is computed
\* over the longer list.
ExtractSources ==
    \E doc \in RetrievedPool :
        LET all_docs == IF ret.op = "extract_sources" THEN ret.docs ELSE <<>>
        IN  /\ Len(all_docs) < MaxRetrieved
            /\ ret' = [op |-> "extract_sources", docs |-> Append(all_docs, doc),
                       value |-> extract_sources(Append(all_docs, doc), {})]
            /\ UNCHANGED <<document_store, vectorstores, sessions, tasks, meetings>>

NextSources == ExtractSources

SpecSources == Init /\ [][NextSources]_vars

\* The key under which the loop remembers a chunk: source_url for a chunk
\* marked as url source, filename otherwise; None or empty is no key.
SourceKey(doc) == IF doc.source_type = "url" THEN doc.source_url ELSE doc.filename

FirstWith(docs, key) ==
    CHOOSE i \in 1..Len(docs) :
        /\ SourceKey(docs[i]) = key
        /\ \A j \in 1..(i - 1) : SourceKey(docs[j]) # key

\* C11: the sources list has exactly one entry per distinct filename or url
\* among the chunks, in the order of first occurrence, and the page and
\* section of an entry are those of the first chunk with that filename.
C11_OneSourcePerFile ==
    ret.op = "extract_sources"
        => LET docs == ret.docs
               sources == ret.value
               keys == {SourceKey(docs[i]) : i \in 1..Len(docs)} \ {None, ""}
           IN  /\ {sources[i].filename : i \in 1..Len(sources)} = keys
               /\ Len(sources) = Cardinality(keys)
               /\ \A i, j \in 1..Len(sources) :
                     i < j => FirstWith(docs, sources[i].filename)
                                 < FirstWith(docs, sources[j].filename)
               /\ \A i \in 1..Len(sources) :
                     LET d == docs[FirstWith(docs, sources[i].filename)]
                     IN  d.source_type # "url"
                            => /\ sources[i].page = d.page
                               /\ sources[i].section = d.section

C11_Witness ==
    /\ ret.op = "extract_sources"
    /\ Len(ret.docs) = 4
    /\ Cardinality({i \in 1..4 : ret.docs[i].filename = "contract.pdf"}) = 3
    /\ Cardinality({i \in 1..4 : ret.docs[i].filename = "notes.txt"}) = 1
    /\ ret.docs[1].page = 4
    /\ Len(ret.value) = 2
    /\ ret.value[1] = [filename |-> "contract.pdf", page |-> 4, section |-> None]

FromCrawl(req, doc) == \E i \in 1..Len(req.crawl.docs) : req.crawl.docs[i] = doc

\* C12: every chunk in the context of a returned answer is attributed: the
\* sources hold the filename of each document chunk and the url of each
\* crawled chunk.
C12_EveryChunkAttributed ==
    (ret.op = "ask" /\ ret.out.raised = None)
        => \A i \in 1..Len(ret.out.all_docs) :
              LET doc == ret.out.all_docs[i]
                  named == {ret.out.sources[j].filename : j \in 1..Len(ret.out.sources)}
              IN  IF FromCrawl(ret.req, doc)
                  THEN ret.req.url \in named
                  ELSE doc.filename \in named

(***************************************************************************)
(* Retrieval of ask over two documents and a url: requests that differ in  *)
(* the order of the ids, in what the crawler does and in whether the       *)
(* embedding model fails on the question.  Every request carries a         *)
(* conversation history, a valid provider and a model that answers.        *)
(***************************************************************************)
SecondDocument == <<Chunk("notes.txt", NoPage, "beta")>>

RetrievalIds ==
    {<<>>, <<"doc_0">>, <<"doc_0", "doc_1">>, <<"doc_1", "doc_0">>,
     <<"doc_1", UnknownId, "doc_0">>}

CrawlOutcomes ==
    {[url |-> "", crawl |-> [raised |-> FALSE, docs |-> <<>>]],
     [url |-> "http://site", crawl |-> [raised |-> FALSE, docs |-> <<UrlChunk>>]],
     [url |-> "http://site", crawl |-> [raised |-> FALSE, docs |-> <<>>]],
     [url |-> "http://site", crawl |-> [raised |-> TRUE, docs |-> <<>>]]}

RetrievalRequests ==
    {[question |-> q, provider |-> "gemini", model |-> "m", api_key |-> "key",
      document_ids |-> ids, url |-> u.url, crawl |-> u.crawl, session_id |-> None,
      conversation_history |-> <<[role |-> "user", content |-> "hi"]>>,
      user_context |-> [previous_context |-> ""],
      llm |-> [raised |-> FALSE, text |-> <<"O", "k">>], embed_raised |-> e] :
        q \in {"alpha", "gamma"}, ids \in RetrievalIds, u \in CrawlOutcomes,
        e \in BOOLEAN}

AddSecondDocument == add_documents("doc_1", SecondDocument, TRUE)

AskRetrieval == \E req \in RetrievalRequests : ask(req)

NextRetrieve ==
    \/ AddSampleDocument
    \/ RemoveSampleDocument
    \/ AddSecondDocument
    \/ AskRetrieval

SpecRetrieve == Init /\ [][NextRetrieve]_vars

KnownIds(document_ids) == SelectSeq(document_ids, LAMBDA d : d \in DOMAIN vectorstores)

RECURSIVE DocumentGroups(_, _)
DocumentGroups(question, ids) ==
    IF ids = <<>> THEN <<>>
    ELSE RetrievalOf(document_store, vectorstores, Head(ids), question)
            \o DocumentGroups(question, Tail(ids))

UrlSelection(req) ==
    IF req.url = "" \/ req.crawl.raised \/ req.crawl.docs = <<>> \/ req.embed_raised
    THEN <<>>
    ELSE retriever_invoke(from_documents(req.crawl.docs), req.question,
                          Min(RETRIEVER_K, Len(req.crawl.docs)))

\* C13: the chunk list of the context is the selection of each known
\* document in the order of document_ids, each as retrieval returned it,
\* followed by the selection from the url; the prompt context lists the
\* chunks in that order.
C13_ContextKeepsSourceOrder ==
    (ret.op = "ask" /\ ret.out.sent)
        => /\ ret.out.all_docs =
                 DocumentGroups(ret.req.question, KnownIds(ret.req.document_ids))
                    \o UrlSelection(ret.req)
           /\ ret.out.prompt[1].context = _format_docs(ret.out.all_docs)

C13_Witness ==
    /\ ret.op = "ask"
    /\ ret.out.raised = None
    /\ ret.req.document_ids = <<"doc_1", UnknownId, "doc_0">>
    /\ ret.req.question = "gamma"
    /\ Len(ret.out.all_docs) = 4
    /\ ret.out.all_docs[1].filename = "notes.txt"
    /\ ret.out.all_docs[2].content = "gamma"
    /\ ret.out.all_docs[3].content = "alpha"
    /\ ret.out.all_docs[4] = UrlChunk

\* C14: source_type is general exactly when no chunk was retrieved, document
\* exactly when only documents gave chunks, url exactly when only the url
\* gave chunks, and both exactly when documents and url gave chunks.
C14_SourceTypeByRetrievedChunks ==
    (ret.op = "ask" /\ ret.out.raised \notin {"KeyError", "EmbeddingError"})
        => LET from_documents_n ==
                   Len(DocumentGroups(ret.req.question, KnownIds(ret.req.document_ids)))
               from_url_n == Len(UrlSelection(ret.req))
           IN  ret.out.source_type =
                  IF from_documents_n = 0 /\ from_url_n = 0 THEN "general"
                  ELSE IF from_url_n = 0 THEN "document"
                  ELSE IF from_documents_n = 0 THEN "url"
                  ELSE "both"

SourceFails(req) ==
    \/ KnownIds(req.document_ids) # <<>> /\ req.embed_raised
    \/ req.url # "" /\ (req.crawl.raised \/ req.embed_raised)

\* C17: when the search of a document or the crawl or indexing of the url
\* raises, ask goes on: the failing source gives no chunk, the chunks of the
\* other sources are kept and the prompt is sent.
C17_RetrievalFailureDegrades ==
    (ret.op = "ask" /\ SourceFails(ret.req))
        => /\ ret.out.sent
           /\ ret.out.all_docs =
                 (IF ret.req.embed_raised THEN <<>>
                  ELSE DocumentGroups(ret.req.question, KnownIds(ret.req.document_ids)))
                    \o UrlSelection(ret.req)

(***************************************************************************)
(* The sanitizer over generated texts: texts put together from pieces (the *)
(* think tags whole and in halves, emphasis and code-fence characters, a   *)
(* newline, a control character, a letter) and a list of sample texts.     *)
(***************************************************************************)
Pieces ==
    {ThinkOpen, ThinkClose, <<"<", "t", "h">>, <<"i", "n", "k", ">">>,
     <<"*">>, <<"BACKQUOTE">>, <<"LF">>, <<"BEL">>, <<"x">>}

HelloWorld == <<"H", "e", "l", "l", "o", " ", "w", "o", "r", "l", "d">>

SpecExample ==
    ThinkOpen \o <<"x">> \o ThinkClose
       \o <<"H", "e", "l", "l", "o", " ", "*", "*", "w", "o", "r", "l", "d", "*", "*">>
       \o <<"BACKQUOTE", "BACKQUOTE", "BACKQUOTE">>

SampleTexts ==
    {SpecExample,
     <<"<", "T", "h", "i", "n", "k", ">", "LF", "x", "<", "/", "T", "H", "I", "N", "K", ">", "o", "k">>,
     ReasoningOpen \o <<"x">> \o ReasoningClose \o <<"a">> \o AnalysisOpen \o AnalysisClose,
     <<"<", "a", "n", "a">> \o ThinkOpen \o ThinkClose \o <<"l", "y", "s", "i", "s", ">">>
        \o <<"x">> \o AnalysisClose,
     <<" ", "TAB", "a", "LF", "CR", "LF", "LF", "LF", "b", "TAB", "LF">>}

Sanitized(raw, pieces) ==
    [op |-> "sanitize", raw |-> raw, pieces |-> pieces, value |-> sanitize(raw)]

\* The model generates one more piece and the text so far is sanitized.
SanitizePieces ==
    \E piece \in Pieces :
        LET raw == IF ret.op = "sanitize" THEN ret.raw ELSE <<>>
            pieces == IF ret.op = "sanitize" THEN ret.pieces ELSE 0
        IN  /\ pieces < MaxPieces
            /\ ret' = Sanitized(raw \o piece, pieces + 1)
            /\ UNCHANGED <<document_store, vectorstores, sessions, tasks, meetings>>

SanitizeSample ==
    \E raw \in SampleTexts :
        /\ ret' = Sanitized(raw, MaxPieces)
        /\ UNCHANGED <<document_store, vectorstores, sessions, tasks, meetings>>

NextSanitize ==
    \/ SanitizePieces
    \/ SanitizeSample

SpecSanitize == Init /\ [][NextSanitize]_vars

Count(text, c) == Cardinality({i \in 1..Len(text) : text[i] = c})

\* C15: the answer holds no asterisk, no backquote, no non-printable
\* character other than newline and tab, and no three newlines in a row; the
\* example of the specification gives Hello world.
C15_SanitizedAnswerIsClean ==
    ret.op = "sanitize"
        => /\ Count(ret.value, "*") = 0
           /\ Count(ret.value, "BACKQUOTE") = 0
           /\ \A i \in 1..Len(ret.value) : ret.value[i] \notin ControlChars \ {"LF", "TAB"}
           /\ \A i \in 1..(Len(ret.value) - 2) :
                 ~(ret.value[i] = "LF" /\ ret.value[i + 1] = "LF" /\ ret.value[i + 2] = "LF")
           /\ ret.raw = SpecExample => ret.value = HelloWorld

C15_Witness ==
    /\ ret.op = "sanitize"
    /\ ret.raw = SpecExample
    /\ ret.value = HelloWorld

HasSpan(text, open, close) ==
    \E i, j \in 1..Len(text) :
        /\ MatchAt(text, i, open)
        /\ j >= i + Len(open)
        /\ MatchAt(text, j, close)

\* C16: the sanitized answer holds no opening think, reasoning or analysis
\* tag that is followed by its closing tag.
C16_NoReasoningSpanLeft ==
    ret.op = "sanitize"
        => /\ ~HasSpan(ret.value, ThinkOpen, ThinkClose)
           /\ ~HasSpan(ret.value, ReasoningOpen, ReasoningClose)
           /\ ~HasSpan(ret.value, AnalysisOpen, AnalysisClose)

(***************************************************************************)
(* ask over requests that differ in the configuration: provider, key and   *)
(* question, with and without a conversation history and documents.        *)
(***************************************************************************)
ConfigCredentials ==
    {<<"gemini", "key">>, <<"mistral", "key">>, <<"groq", " ">>, <<"openrouter", "">>}

ConfigUrls ==
    {[url |-> "", crawl |-> [raised |-> FALSE, docs |-> <<>>]],
     [url |-> "http://site", crawl |-> [raised |-> FALSE, docs |-> <<UrlChunk>>]]}

ConfigRequests ==
    {[question |-> q, provider |-> c[1], model |-> "m", api_key |-> c[2],
      document_ids |-> ids, url |-> u.url, crawl |-> u.crawl,
      session_id |-> None, conversation_history |-> h,
      user_context |-> [previous_context |-> ""],
      llm |-> [raised |-> FALSE, text |-> <<"O", "k">>], embed_raised |-> e] :
        q \in {"", "alpha"}, c \in ConfigCredentials, ids \in {<<>>, <<"doc_0">>},
        u \in ConfigUrls, h \in Histories, e \in BOOLEAN}

AskConfig == \E req \in ConfigRequests : ask(req)

NextConfig ==
    \/ AddSampleDocument
    \/ RemoveSampleDocument
    \/ AskConfig

SpecConfig == Init /\ [][NextConfig]_vars

\* C18: ask with a provider outside the fixed set, with an empty or blank
\* key, or with an empty question fails with a configuration error and
\* sends no prompt.
C18_BadConfigurationFails ==
    (/\ ret.op = "ask"
     /\ \/ ret.req.provider \notin {"gemini", "openrouter", "groq"}
        \/ ret.req.api_key \in {"", " "}
        \/ ret.req.question = "")
        => /\ ret.out.raised = "ValueError"
           /\ ~ret.out.sent

Messages(mem, session_id) ==
    IF session_id \in DOMAIN mem THEN mem[session_id] ELSE <<>>

(***************************************************************************)
(* The memory manager called for two sessions: appends, clears and reads   *)
(* of the formatted history in any interleaving.  The text of a message    *)
(* names the session it was appended under.                                *)
(***************************************************************************)
MemorySessions == {"s1", "s2"}

MemoryTexts == {"q1", "q2"}

MemoryAdd ==
    \E sid \in MemorySessions, text \in MemoryTexts :
        /\ Len(Messages(sessions, sid)) < 2 * (MaxTurns + 1)
        /\ add_message(sid, sid \o ":" \o text, sid \o ":answer")

MemoryClear == \E sid \in MemorySessions : clear_session(sid)

\* GET /api/memory/history/{session_id}
MemoryHistory ==
    \E sid \in MemorySessions :
        /\ ret' = [op |-> "get_chat_history", id |-> sid,
                   value |-> get_chat_history(sessions, sid)]
        /\ sessions' = get_or_create_session(sessions, sid)
        /\ UNCHANGED <<document_store, vectorstores, tasks, meetings>>

\* export_session: the messages come from get_chat_history_messages, which
\* goes through get_or_create_session.
export_session(mem, session_id) ==
    LET messages == get_or_create_session(mem, session_id)[session_id]
    IN  [session_id |-> session_id,
         messages |-> [i \in 1..Len(messages) |->
                          [role |-> IF messages[i].type = "human" THEN "user" ELSE "assistant",
                           content |-> messages[i].content]]]

MemoryExport ==
    \E sid \in MemorySessions :
        /\ ret' = [op |-> "export_session", id |-> sid,
                   value |-> export_session(sessions, sid)]
        /\ sessions' = get_or_create_session(sessions, sid)
        /\ UNCHANGED <<document_store, vectorstores, tasks, meetings>>

NextMemory ==
    \/ MemoryAdd
    \/ MemoryClear
    \/ clear_all_sessions
    \/ MemoryHistory
    \/ MemoryExport

SpecMemory == Init /\ [][NextMemory]_vars

OwnTexts(sid) == {sid \o ":" \o text : text \in MemoryTexts} \cup {sid \o ":answer"}

\* C20: an append, a clear or a read for one session leaves the record of
\* every other session as it was, and the record and the returned history of
\* a session hold only messages appended under its id.
C20_SessionsAreIsolated ==
    /\ [](\A sid \in DOMAIN sessions :
             \A i \in 1..Len(sessions[sid]) : sessions[sid][i].content \in OwnTexts(sid))
    /\ [](ret.op = "get_chat_history"
             => \A i \in 1..Len(ret.value) : ret.value[i].content \in OwnTexts(ret.id))
    /\ [][\A sid \in MemorySessions :
             (ret'.op \in {"add_message", "clear_session", "get_chat_history"}
                 /\ ret'.id # sid)
                => /\ (sid \in DOMAIN sessions') = (sid \in DOMAIN sessions)
                   /\ Messages(sessions', sid) = Messages(sessions, sid)]_vars

C20_Witness ==
    /\ ret.op = "add_message"
    /\ ret.id = "s1"
    /\ Len(Messages(sessions, "s1")) = 4
    /\ Len(Messages(sessions, "s2")) = 2
    /\ sessions["s1"][1].content = "s1:q1"
    /\ sessions["s1"][3].content = "s1:q2"
    /\ sessions["s2"][1].content = "s2:q1"

(***************************************************************************)
(* The chat endpoint together with the endpoints of the session memory:    *)
(* DELETE /api/memory/clear/{session_id}, DELETE /api/memory/clear-all and *)
(* the reads of the history and of the export.                             *)
(***************************************************************************)
NextChatMemory ==
    \/ AddSampleDocument
    \/ RemoveSampleDocument
    \/ Chat
    \/ ClearSession
    \/ clear_all_sessions
    \/ MemoryHistory
    \/ MemoryExport

SpecChatMemory == Init /\ [][NextChatMemory]_vars

\* main.py:404-435: the handler reaches memory_manager.add_message when
\* rag_engine.ask was called and returned an answer.
GenerationSucceeded(reply) ==
    /\ reply.asked
    /\ reply.status = 200

\* C19: the memory record of a session changes only by an explicit clear,
\* which empties it, or by the append of the (question, answer) pair of a
\* chat request for the session whose generation succeeded; every other
\* step, a chat request that fails, is moderated or goes to the calendar
\* included, leaves the record as it was, so that between clears the record
\* before a step is a prefix of the record after it.
C19_MemoryAppendOnly ==
    [][\A sid \in MemorySessions :
          LET before == Messages(sessions, sid)
              after == Messages(sessions', sid)
          IN  IF \/ ret'.op = "clear_session" /\ ret'.id = sid
                 \/ ret'.op = "clear_all_sessions"
              THEN after = <<>>
              ELSE \/ after = before
                   \/ /\ ret'.op = "POST /api/chat"
                      /\ ret'.req.session_id = sid
                      /\ GenerationSucceeded(ret'.reply)
                      /\ after = before \o <<HumanMessage(ret'.req.question),
                                              AIMessage(ret'.reply.out[1].answer)>>]_vars

\* A chat request for session s1 whose provider, key, question and documents
\* are in order and whose model would answer has ended in an error, and the
\* record of s1 holds what it held before.
C19_Witness ==
    /\ ret.op = "POST /api/chat"
    /\ ret.req.session_id = "s1"
    /\ validate_chat_request(ret.req)
    /\ ~ret.req.toxic
    /\ ~is_calendar_request(ret.req.question)
    /\ ~ret.req.llm.raised
    /\ ret.reply.status = 500
    /\ "s1" \in DOMAIN sessions
    /\ Messages(sessions, "s1") = <<>>

(***************************************************************************)
(* Chat requests on the server.  run.py starts one uvicorn process with    *)
(* one event loop; chat is a coroutine whose body, the call of             *)
(* rag_engine.ask included, contains no await, so the loop runs one        *)
(* handler from its entry to its return before it starts the next.  tasks  *)
(* maps a connection to the request it carries and the stage of its        *)
(* handler: pending (accepted, handler not started), running, done.        *)
(***************************************************************************)
Connections == {"c1", "c2"}

SessionOf(conn) == IF conn = "c1" THEN "s1" ELSE "s2"

DocumentOf(conn) == IF conn = "c1" THEN <<"doc_0">> ELSE <<"doc_1">>

LoopRequests(conn) ==
    {[question |-> q, provider |-> c[1], model |-> "m", api_key |-> c[2],
      document_ids |-> DocumentOf(conn), url |-> "",
      crawl |-> [raised |-> FALSE, docs |-> <<>>],
      session_id |-> SessionOf(conn), toxic |-> t,
      llm |-> [raised |-> FALSE, text |-> <<"O", "k">>], embed_raised |-> FALSE] :
        c \in {x \in Credentials : x[1] \in PROVIDER_NAMES /\ ~Blank(x[2])},
        q \in {"alpha"} \cup CalendarQuestions, t \in BOOLEAN}

\* The event loop is free when no handler is between its entry and its return.
LoopIdle == \A c \in DOMAIN tasks : tasks[c].stage # "running"

ChatArrives ==
    \E conn \in Connections :
        /\ conn \notin DOMAIN tasks
        /\ \E req \in LoopRequests(conn) :
              tasks' = Put(tasks, conn, [stage |-> "pending", req |-> req])
        /\ ret' = [op |-> "accept", id |-> conn]
        /\ UNCHANGED <<document_store, vectorstores, sessions, meetings>>

ChatStarts ==
    \E conn \in DOMAIN tasks :
        /\ tasks[conn].stage = "pending"
        /\ LoopIdle
        /\ tasks' = Put(tasks, conn, [tasks[conn] EXCEPT !.stage = "running"])
        /\ ret' = [op |-> "start", id |-> conn]
        /\ UNCHANGED <<document_store, vectorstores, sessions, meetings>>

ChatReturns ==
    \E conn \in DOMAIN tasks :
        /\ tasks[conn].stage = "running"
        /\ tasks' = Put(tasks, conn, [tasks[conn] EXCEPT !.stage = "done"])
        /\ ret' = [op |-> "POST /api/chat", req |-> tasks[conn].req,
                   reply |-> chat_outcome(sessions, tasks[conn].req)]
        /\ sessions' = chat_sessions(sessions, tasks[conn].req)
        /\ UNCHANGED <<document_store, vectorstores, meetings>>

NextLoop ==
    \/ AddSampleDocument
    \/ AddSecondDocument
    \/ ChatArrives
    \/ ChatStarts
    \/ ChatReturns

SpecLoop == Init /\ [][NextLoop]_vars

\* C21: while the handler of one chat request has not returned, a pending
\* chat request of another session and other documents can be started: the
\* two are not serialized behind one executor.
C21_OtherSessionsNotBlocked ==
    \A a, b \in DOMAIN tasks :
        (/\ tasks[a].stage = "running"
         /\ tasks[b].stage = "pending"
         /\ tasks[a].req.session_id # tasks[b].req.session_id
         /\ tasks[a].req.document_ids # tasks[b].req.document_ids)
            => ENABLED (/\ tasks[b].stage = "pending"
                        /\ LoopIdle
                        /\ tasks' = Put(tasks, b, [tasks[b] EXCEPT !.stage = "running"]))

\* C22: a call of ask with a url leaves the Document Store as it was: the
\* stored chunks, the indexes, and with them list_documents() and
\* get_stats(), are the same after the call as before, whether the crawl
\* gave chunks, gave nothing or failed.
C22_UrlAskLeavesStore ==
    [][(ret'.op = "ask" /\ Truthy(ret'.req.url))
          => /\ document_store' = document_store
             /\ vectorstores' = vectorstores
             /\ ListDocumentsValue' = ListDocumentsValue
             /\ GetStatsValue' = GetStatsValue]_vars

C22_Witness ==
    /\ ret.op = "ask"
    /\ Truthy(ret.req.url)
    /\ ret.req.crawl.docs # <<>>
    /\ ret.out.raised = None
    /\ \E i \in 1..Len(ret.out.all_docs) : FromCrawl(ret.req, ret.out.all_docs[i])
    /\ DOMAIN document_store # {}

(***************************************************************************)
(* Retrieval over one document: the document is built chunk by chunk, and  *)
(* the retriever of ask (rag_engine.py:186-196) is invoked on its index    *)
(* for a question and a number of results.  The record keeps the indexes   *)
(* of the selected chunks in the order of selection.                       *)
(***************************************************************************)
IndexedTexts == {"alpha", "beta", "gamma", "delta"}

retriever_picks(index, question, k) ==
    maximal_marginal_relevance(index, embed_query(question),
                               index_search(index, embed_query(question), FETCH_K), k)

IndexChunk ==
    /\ ret.op \in {"init", "index"}
    /\ LET texts == IF ret.op = "init" THEN <<>> ELSE ret.texts
       IN  /\ Len(texts) < MaxIndexed
           /\ \E t \in IndexedTexts :
                 ret' = [op |-> "index", texts |-> Append(texts, t)]
    /\ UNCHANGED <<document_store, vectorstores, sessions, tasks, meetings>>

Retrieve ==
    /\ ret.op = "index"
    /\ \E question \in IndexedTexts, k \in 1..Len(ret.texts) :
          LET index == from_documents([i \in 1..Len(ret.texts) |->
                                          Chunk("a.pdf", NoPage, ret.texts[i])])
              picked == retriever_picks(index, question, k)
          IN  ret' = [op |-> "retrieve", texts |-> ret.texts, question |-> question,
                      k |-> k, index |-> index, picked |-> picked,
                      docs |-> [i \in 1..Len(picked) |-> index.docs[picked[i]]]]
    /\ UNCHANGED <<document_store, vectorstores, sessions, tasks, meetings>>

NextMMR ==
    \/ IndexChunk
    \/ Retrieve

SpecMMR == Init /\ [][NextMMR]_vars

\* Two chunks are near-duplicates when their vectors coincide.
NearDuplicate(i, j) == cosine_similarity(ret.index.vectors[i], ret.index.vectors[j]) = 100

Relevance(i) == cosine_similarity(embed_query(ret.question), ret.index.vectors[i])

PickedBefore(p) == {ret.picked[e] : e \in 1..(p - 1)}

\* The pick at position p repeats a chunk selected before it.
SecondDuplicate(p) == \E e \in PickedBefore(p) : NearDuplicate(e, ret.picked[p])

\* Chunks that are neither selected before position p nor near-duplicates of
\* a chunk selected before it.
DistinctLeft(p) ==
    {c \in 1..Len(ret.texts) : \A e \in PickedBefore(p) : ~NearDuplicate(e, c)}

\* The document holds at least k near-duplicate chunks and k chunks that are
\* distinct from them and from one another.
HasDuplicatesAndDistinct ==
    \E D, X \in SUBSET (1..Len(ret.texts)) :
        /\ Cardinality(D) >= ret.k
        /\ Cardinality(X) >= ret.k
        /\ \A i, j \in D : NearDuplicate(i, j)
        /\ \A i \in X : \A j \in (D \cup X) \ {i} : ~NearDuplicate(i, j)

\* C23 as stated: for a document with at least k near-duplicate chunks and k
\* distinct chunks, retrieval of k results returns no second near-duplicate
\* while a distinct chunk is still unselected.
C23_DistinctBeforeDuplicate ==
    (ret.op = "retrieve" /\ HasDuplicatesAndDistinct)
        => \A p \in 1..Len(ret.picked) :
              SecondDuplicate(p) => DistinctLeft(p) = {}

\* C23 amended: retrieval returns no second near-duplicate while a distinct
\* chunk that is at least as similar to the question as that duplicate is
\* still unselected; a distinct chunk less similar to the question may come
\* after a second near-duplicate.
C23_RelevantDistinctBeforeDuplicate ==
    ret.op = "retrieve"
        => \A p \in 1..Len(ret.picked) :
              SecondDuplicate(p)
                 => \A c \in DistinctLeft(p) : Relevance(c) < Relevance(ret.picked[p])

\* A distinct chunk was selected although a near-duplicate of an earlier
\* pick, as similar to the question and ranked before it, was available.
C23_Witness ==
    /\ ret.op = "retrieve"
    /\ HasDuplicatesAndDistinct
    /\ \E p \in 2..Len(ret.picked) :
          /\ ret.picked[p] \in DistinctLeft(p)
          /\ \E d \in 1..Len(ret.texts) :
                /\ d \notin PickedBefore(p)
                /\ d < ret.picked[p]
                /\ Relevance(d) = Relevance(ret.picked[p])
                /\ \E e \in PickedBefore(p) : NearDuplicate(e, d)

\* C24: whatever the value of include_history that ask passes, that is
\* whether or not the call has history lines, _get_prompt_template returns
\* a template whose input variables are exactly context, document_content
\* and input.
C24_TemplateForEveryHistoryFlag ==
    (ret.op = "ask" /\ ret.out.raised \in {"TypeError", "GenerationError", None})
        => _get_prompt_template(ret.out.history_lines # <<>>)
              = <<[input_variables |-> {"context", "document_content", "input"}]>>

\* C25: when ask is called with an unknown provider or an empty API key, the
\* call leaves with the configuration error and has by then neither searched
\* an index nor crawled the url: it has retrieved no chunk.
C25_ConfigurationErrorComesFirst ==
    (ret.op = "ask" /\ get_provider_raises(ret.req.provider, ret.req.api_key))
        => /\ ret.out.raised = "ValueError"
           /\ ret.out.all_docs = <<>>

(***************************************************************************)
(* ContentModerator.moderate, the gate of the chat endpoint (main.py:309): *)
(* chat goes on towards rag_engine.ask exactly when is_clean is returned   *)
(* TRUE (the field toxic of a chat request is the negation of that value). *)
(* detector is the state of the Detoxify model: loaded, missing (both      *)
(* loads in __init__ failed, self.model is None) or raising in predict.    *)
(* predictions are the scores of predict in tenths, in the order of the    *)
(* categories.                                                             *)
(***************************************************************************)
THRESHOLD == 5

Categories == <<"toxicity", "insult">>

ModeratedTexts == {"", " ", "BEL", "alpha", "insult"}

Detectors == {"loaded", "missing", "raising"}

Predictions == [1..Len(Categories) -> {THRESHOLD - 1, THRESHOLD, THRESHOLD + 1}]

flagged_categories(predictions) ==
    SelectSeq(Categories,
              LAMBDA c : \E i \in 1..Len(Categories) :
                            Categories[i] = c /\ predictions[i] > THRESHOLD)

_get_default_response(toxicity_type) == <<"default", toxicity_type>>

_generate_llm_response(toxicity_type, llm) ==
    IF llm = "raising" THEN _get_default_response(toxicity_type)
    ELSE <<"generated", toxicity_type>>

moderate(text, detector, predictions, llm) ==
    IF text = "" \/ strip(<<text>>) = <<>>
    THEN [is_clean |-> FALSE, message |-> <<"Please provide a message.">>,
          examined |-> FALSE]
    ELSE IF detector = "missing"
    THEN [is_clean |-> TRUE, message |-> <<>>, examined |-> FALSE]
    ELSE IF detector = "raising"
    THEN [is_clean |-> TRUE, message |-> <<>>, examined |-> FALSE]
    ELSE IF flagged_categories(predictions) # <<>>
    THEN [is_clean |-> FALSE,
          message |-> IF llm # None
                      THEN _generate_llm_response(flagged_categories(predictions)[1], llm)
                      ELSE _get_default_response(flagged_categories(predictions)[1]),
          examined |-> TRUE]
    ELSE [is_clean |-> TRUE, message |-> <<>>, examined |-> TRUE]

Moderate ==
    /\ \E text \in ModeratedTexts, detector \in Detectors, predictions \in Predictions,
          llm \in {None, "llm", "raising"} :
          ret' = [op |-> "moderate", text |-> text, detector |-> detector,
                  predictions |-> predictions, llm |-> llm,
                  out |-> moderate(text, detector, predictions, llm)]
    /\ UNCHANGED <<document_store, vectorstores, sessions, tasks, meetings>>

NextModerate ==
    \/ Moderate

SpecModerate == Init /\ [][NextModerate]_vars

\* C26: a question that the moderator lets through to rag_engine.ask has
\* been examined by it and judged clean: the detector has scored the
\* question and no category is above the threshold.
C26_PassedQuestionsWereJudgedClean ==
    (ret.op = "moderate" /\ ret.out.is_clean)
        => /\ ret.out.examined
           /\ ret.detector = "loaded"
           /\ \A i \in 1..Len(Categories) : ret.predictions[i] <= THRESHOLD

(***************************************************************************)
(* RAGEngine.add_to_vector_store: the id is made from the number of        *)
(* entries of document_store, then add_documents is called with it.        *)
(***************************************************************************)
add_to_vector_store(chunks) ==
    LET doc_id == "doc_" \o ToString(Cardinality(DOMAIN document_store))
    IN  /\ document_store' = Put(document_store, doc_id, chunks)
        /\ vectorstores' = IF BuildFails(chunks, TRUE) THEN vectorstores
                           ELSE Put(vectorstores, doc_id, from_documents(chunks))
        /\ ret' = [op |-> "add_to_vector_store", id |-> doc_id,
                   existed |-> doc_id \in DOMAIN document_store,
                   replaced |-> IF doc_id \in DOMAIN document_store
                                THEN <<document_store[doc_id]>> ELSE <<>>,
                   raised |-> BuildFails(chunks, TRUE)]
        /\ UNCHANGED <<sessions, tasks, meetings>>

AddToVectorStore ==
    /\ Cardinality(DOMAIN document_store) < Cardinality(DocIds)
    /\ \E chunks \in ChunkLists : add_to_vector_store(chunks)

NextVectorStore ==
    \/ AddToVectorStore
    \/ RemoveDocument

SpecVectorStore == Init /\ [][NextVectorStore]_vars

\* C27: the id that add_to_vector_store returns was not an id of the
\* Document Store before the call: the call adds a document and replaces
\* none.
C27_FreshDocumentId ==
    (ret.op = "add_to_vector_store" /\ ~ret.raised) => ~ret.existed

\* C28: reading a session leaves the set of sessions of the Memory Store as
\* it was: an id that was never appended to, or that was cleared, is still
\* absent after get_chat_history or export_session for it.
C28_ReadsKeepSessionSet ==
    [][ret'.op \in {"get_chat_history", "export_session"}
          => DOMAIN sessions' = DOMAIN sessions]_vars

(***************************************************************************)
(* DELETE /api/documents/{document_id} (main.delete_document).  The        *)
(* handler takes the filename of the first chunk of the requested          *)
(* document and calls remove_document for every id of document_store whose *)
(* first chunk has that filename; without a filename it calls              *)
(* remove_document for the requested id alone.  remove_document removes an *)
(* id from both dictionaries when it has an index.  The files of the       *)
(* upload directory are outside the engine and are left out.               *)
(***************************************************************************)
filename_of(store, document_id) ==
    IF document_id \in DOMAIN store /\ store[document_id] # <<>>
    THEN store[document_id][1].filename
    ELSE None

to_remove(store, document_id) ==
    IF filename_of(store, document_id) \notin {None, ""}
    THEN {did \in DOMAIN store : filename_of(store, did) = filename_of(store, document_id)}
    ELSE {document_id}

removed_doc_ids(document_id) == to_remove(document_store, document_id) \cap DOMAIN vectorstores

delete_document(document_id) ==
    /\ vectorstores' = [d \in DOMAIN vectorstores \ removed_doc_ids(document_id) |->
                           vectorstores[d]]
    /\ document_store' = [d \in DOMAIN document_store \ removed_doc_ids(document_id) |->
                             document_store[d]]
    /\ ret' = [op |-> "DELETE /api/documents", id |-> document_id,
               removed_doc_ids |-> removed_doc_ids(document_id)]
    /\ UNCHANGED <<sessions, tasks, meetings>>

DeleteDocument == \E id \in DocIds \cup {UnknownId} : delete_document(id)

NextDelete ==
    \/ AddDocuments
    \/ AddDocumentsEmbeddingError
    \/ DeleteDocument

SpecDelete == Init /\ [][NextDelete]_vars

\* C29: DELETE /api/documents/{document_id} removes only the requested
\* document: every other document that had an index before the call has it
\* after the call, with the same chunks.
C29_DeleteRemovesOnlyRequested ==
    [][ret'.op = "DELETE /api/documents"
          => \A d \in DOMAIN vectorstores \ {ret'.id} :
                /\ d \in DOMAIN vectorstores'
                /\ d \in DOMAIN document_store'
                /\ vectorstores'[d] = vectorstores[d]
                /\ document_store'[d] = document_store[d]]_vars

(***************************************************************************)
(* The custom calendar (mcp_custom_calendar).  meetings is the table of    *)
(* calendar_events.db: its rows and the last AUTOINCREMENT id.  Times are  *)
(* the zero-padded "%H:%M" strings of extract_datetime, which compare as   *)
(* the hours they denote; they are kept as hours.  extract_datetime does   *)
(* not compare start and end, so a request may carry an end before its     *)
(* start.                                                                  *)
(*                                                                         *)
(* schedule_meeting_tool reads the table in has_conflict and inserts in    *)
(* save_meeting, each on a connection of its own (get_connection), with no *)
(* lock and no transaction around the two: calls of several clients, each  *)
(* served by a server process on the same database file, interleave        *)
(* between the read and the insert.  tasks holds, for each client, the     *)
(* call that has passed has_conflict and has not yet inserted.             *)
(***************************************************************************)
Clients == {"k1", "k2"}

\* Titles are strings of characters; extract_title stores them in lower case.
Talk == <<"t", "a", "l", "k">>

Sales == <<"s", "a", "l", "e", "s">>

Titles == {Talk, Sales}

ScheduleRequests ==
    {[date |-> sl[1], start_time |-> sl[2], end_time |-> sl[3], title |-> t] :
        sl \in {<<"2026-02-05", 9, 10>>, <<"2026-02-05", 9, 11>>,
                <<"2026-02-05", 10, 11>>, <<"2026-02-05", 11, 9>>,
                <<"2026-02-06", 9, 11>>},
        t \in Titles}

get_meetings_time_slots(table, date) == {r \in table.rows : r.date = date}

has_conflict(table, start, end, date) ==
    \E m \in get_meetings_time_slots(table, date) :
        ~(end <= m.start_time \/ start >= m.end_time)

save_meeting(table, date, start, end, title) ==
    [rows |-> table.rows \cup {[id |-> table.seq + 1, date |-> date,
                                start_time |-> start, end_time |-> end,
                                title |-> title]},
     seq |-> table.seq + 1]

delete_meeting(table, meeting_id) ==
    [table EXCEPT !.rows = {r \in table.rows : r.id # meeting_id}]

\* The LIKE operator of SQLite: % stands for any string, _ for any one
\* character, letters match whatever their case.
RECURSIVE like(_, _)
like(pattern, text) ==
    IF pattern = <<>> THEN text = <<>>
    ELSE IF Head(pattern) = "%"
    THEN \E i \in 0..Len(text) : like(Tail(pattern), SubSeq(text, i + 1, Len(text)))
    ELSE /\ text # <<>>
         /\ Head(pattern) = "_" \/ Lower(Head(pattern)) = Lower(Head(text))
         /\ like(Tail(pattern), Tail(text))

\* WHERE title LIKE '%<title>%' AND date = <date>
find_meeting_by_title_and_date(table, title, date) ==
    {r \in table.rows : like(<<"%">> \o title \o <<"%">>, r.title) /\ r.date = date}

\* schedule_meeting_tool up to the return of has_conflict.
ScheduleCheck ==
    \E k \in Clients :
        /\ k \notin DOMAIN tasks
        /\ \E req \in ScheduleRequests :
              IF has_conflict(meetings, req.start_time, req.end_time, req.date)
              THEN /\ ret' = [op |-> "schedule_meeting_custom", client |-> k,
                              status |-> "conflict", req |-> req]
                   /\ UNCHANGED tasks
              ELSE /\ ret' = [op |-> "has_conflict", client |-> k, req |-> req]
                   /\ tasks' = Put(tasks, k, [stage |-> "checked", req |-> req])
        /\ UNCHANGED <<document_store, vectorstores, sessions, meetings>>

\* schedule_meeting_tool from save_meeting to its return.
ScheduleSave ==
    \E k \in DOMAIN tasks :
        /\ tasks[k].stage = "checked"
        /\ meetings.seq < MaxMeetings
        /\ meetings' = save_meeting(meetings, tasks[k].req.date, tasks[k].req.start_time,
                                    tasks[k].req.end_time, tasks[k].req.title)
        /\ tasks' = Del(tasks, k)
        /\ ret' = [op |-> "schedule_meeting_custom", client |-> k, status |-> "success",
                   req |-> tasks[k].req, id |-> meetings.seq + 1]
        /\ UNCHANGED <<document_store, vectorstores, sessions>>

\* What cancel_meeting_tool takes from the request: a number anywhere in it
\* is the meeting id; otherwise the title and the date of
\* extract_cancel_details.
CancelTitles == {Talk, <<"T", "A", "L", "K">>, <<"a", "l">>, <<"s", "%", "s">>,
                 <<"t", "_", "l", "k">>}

CancelRequests ==
    {[kind |-> "id", id |-> i] : i \in 1..MaxMeetings}
        \cup {[kind |-> "title", title |-> t, date |-> d] :
                 t \in CancelTitles, d \in {"2026-02-05", "2026-02-06"}}

\* cancel_meeting_tool up to the call of cancel_meeting: with a meeting id
\* the whole call (one DELETE); with a title the read of the matching rows,
\* which ends the call unless exactly one row matches.
CancelFind ==
    \E k \in Clients :
        /\ k \notin DOMAIN tasks
        /\ \E req \in CancelRequests :
              IF req.kind = "id"
              THEN /\ meetings' = delete_meeting(meetings, req.id)
                   /\ ret' = [op |-> "cancel_meeting_custom", client |-> k, req |-> req,
                              status |-> "success"]
                   /\ UNCHANGED tasks
              ELSE LET found == find_meeting_by_title_and_date(meetings, req.title, req.date)
                   IN  /\ UNCHANGED meetings
                       /\ IF found = {}
                          THEN /\ ret' = [op |-> "cancel_meeting_custom", client |-> k,
                                          req |-> req, status |-> "not_found"]
                               /\ UNCHANGED tasks
                          ELSE IF Cardinality(found) > 1
                          THEN /\ ret' = [op |-> "cancel_meeting_custom", client |-> k,
                                          req |-> req, status |-> "ambiguous"]
                               /\ UNCHANGED tasks
                          ELSE /\ ret' = [op |-> "find_meeting_by_title_and_date",
                                          client |-> k, req |-> req]
                               /\ tasks' = Put(tasks, k,
                                               [stage |-> "found", req |-> req,
                                                id |-> (CHOOSE r \in found : TRUE).id])
        /\ UNCHANGED <<document_store, vectorstores, sessions>>

\* cancel_meeting_tool from cancel_meeting(meeting["id"]) to its return.
CancelDelete ==
    \E k \in DOMAIN tasks :
        /\ tasks[k].stage = "found"
        /\ meetings' = delete_meeting(meetings, tasks[k].id)
        /\ tasks' = Del(tasks, k)
        /\ ret' = [op |-> "cancel_meeting_custom", client |-> k, req |-> tasks[k].req,
                   status |-> "success"]
        /\ UNCHANGED <<document_store, vectorstores, sessions>>

NextCalendar ==
    \/ ScheduleCheck
    \/ ScheduleSave
    \/ CancelFind
    \/ CancelDelete

SpecCalendar == Init /\ [][NextCalendar]_vars

\* C30: after any sequence of schedule and cancel calls, concurrent schedule
\* calls included, no two stored meetings of the same date overlap.
C30_NoOverlappingMeetings ==
    \A a, b \in meetings.rows :
        (a.id # b.id /\ a.date = b.date)
            => (a.end_time <= b.start_time \/ a.start_time >= b.end_time)

====
